---- MODULE Spec2Model ----
(***************************************************************************)
(* Model of src/server.js: the batched ride-offer auction of the Socket.IO *)
(* dispatch server (driver registry, ride registry, dispatch rounds, the   *)
(* first-to-accept arbiter, ride rooms and the timers of the event loop).  *)
(*                                                                         *)
(* One action is one handler run to completion on the single event loop.   *)
(* A socket that has disconnected sends no further event.                  *)
(* Time is counted in ticks; of a driver's last location the model keeps   *)
(* its age now() - last.at, which is all the code reads of it, saturated   *)
(* one tick past DRIVER_STALE_MS. Coordinates are whole degrees of         *)
(* latitude on one meridian, where the Haversine distance of distKm is     *)
(* R * pi/180 * |dLat|.                                                    *)
(***************************************************************************)
EXTENDS Integers, Sequences, FiniteSets, TLC

\* ---------------------------------------------------------------- bounds
MaxLat == 1          \* latitudes 0..MaxLat are reported by drivers and passengers
MaxEpoch == 2        \* nova_corrida events explored per rideId
MaxLinger == 1       \* linger timers that may be pending at once

\* ------------------------------------------------- configuration (env)
BATCH_SIZE == 2
MAX_ROUNDS == 2
DRIVER_STALE_MS == 1
OFFER_TTL_MS == 12000
RETRY_MS == 2000
LINGER_MS == 3000
KmPerDegree == 111
SENTINEL_KM == 9999

\* ------------------------------------------------------------- universe
Passengers == {"p1", "p2"}
Drivers == {"d1", "d2", "d3"}
Conns == Passengers \cup Drivers
RideIds == {"r1"}
Lats == 0..MaxLat
NaN == -2            \* a non-finite coordinate as received from a client
NoLoc == -1          \* null location
NoConn == "null"
TimerNull == 0       \* r.timer = null
TimerStale == -1     \* r.timer holds the handle of a timer that already fired
\* the offer ids a driver may quote: those a ride over the drivers S can mint, and one more
OfferIdInputs(S) == 1..(Cardinality(S) + 1)

VARIABLES
    quickTest,        \* QUICK_TEST_MODE, fixed at process start
    driverOrder,      \* insertion order of the keys of driversBySocket
    driversBySocket,  \* socketId -> {available, last: {lat, age = now() - at}}
    rides,            \* rideId -> ride record, or NoRide
    rooms,            \* members of the Socket.IO room ride:<rideId>
    timers,           \* pending setTimeout callbacks, in the order they were armed
    epoch,            \* number of nova_corrida handled per rideId
    closed,           \* sockets that have disconnected
    out               \* messages emitted by the last handler, in order

vars == <<quickTest, driverOrder, driversBySocket, rides, rooms, timers, epoch, closed, out>>

\* ------------------------------------------------------------- helpers
Min(a, b) == IF a < b THEN a ELSE b
Abs(x) == IF x < 0 THEN 0 - x ELSE x
Range(s) == {s[i] : i \in 1..Len(s)}
RemoveAt(s, i) == SubSeq(s, 1, i - 1) \o SubSeq(s, i + 1, Len(s))
Take(s, n) == SubSeq(s, 1, Min(n, Len(s)))

\* F applied to the value of v, which is computed once
With(v, F(_)) == CHOOSE y \in {F(x) : x \in {v}} : TRUE

Msg(to, ev, rideId, offerId, reason) ==
    [to |-> to, ev |-> ev, ride |-> rideId, offerId |-> offerId, reason |-> reason]

\* io.to(room).emit: one delivery per current member of the room
RECURSIVE SetToSeq(_)
SetToSeq(S) == IF S = {} THEN <<>>
               ELSE LET x == CHOOSE y \in S : TRUE IN <<x>> \o SetToSeq(S \ {x})
EmitRoom(members, ev, rideId) ==
    [i \in 1..Cardinality(members) |-> Msg(SetToSeq(members)[i], ev, rideId, 0, "")]

NoDriver == [present |-> FALSE, available |-> FALSE, lat |-> NoLoc, age |-> 0]
NoRide == [status |-> "none", passengerSid |-> NoConn, pickup |-> NoLoc,
           offered |-> <<>>, offeredSockets |-> {}, winnerSid |-> NoConn,
           round |-> 0, timer |-> TimerNull,
           wonTo |-> <<>>, sentTo |-> <<>>, batches |-> 0, steps |-> 0, semSent |-> 0]

\* distKm on one meridian: 2R asin(sqrt(sin^2(dLat/2))) = R * pi/180 * |dLat|
distKm(a, b) ==
    IF a = NoLoc \/ b = NoLoc THEN SENTINEL_KM
    ELSE KmPerDegree * Abs(b - a)

\* Array.prototype.sort((a, b) => a.d - b.d): a stable sort by d
RECURSIVE InsertByD(_, _)
InsertByD(s, c) ==
    IF s = <<>> THEN <<c>>
    ELSE IF s[Len(s)].d <= c.d THEN Append(s, c)
    ELSE Append(InsertByD(SubSeq(s, 1, Len(s) - 1), c), s[Len(s)])
\* SortByD without the sort: the candidates stay in registry order
SortByDUnsorted(s) == s

RECURSIVE SortByD(_)
SortByD(s) ==
    IF s = <<>> THEN <<>>
    ELSE InsertByD(SortByD(SubSeq(s, 1, Len(s) - 1)), s[Len(s)])

\* hasFresh without the comparison with DRIVER_STALE_MS
hasFreshAnyAge(info) == info.lat # NoLoc

\* info.last && (now() - info.last.at) <= DRIVER_STALE_MS
hasFresh(info) == info.lat # NoLoc /\ info.age <= DRIVER_STALE_MS

Cand(sid, d) == [socketId |-> sid, d |-> d]

listCandidateDrivers(pickup) ==
    LET Fresh(sid) == driversBySocket[sid].available /\ hasFresh(driversBySocket[sid])
        Avail(sid) == driversBySocket[sid].available
        everyone == [i \in 1..Len(driverOrder) |-> Cand(driverOrder[i], 0)]
        fresh == SelectSeq(driverOrder, Fresh)
        primary == [i \in 1..Len(fresh) |->
                      Cand(fresh[i], distKm(driversBySocket[fresh[i]].lat, pickup))]
        avail == SelectSeq(driverOrder, Avail)
        fallback == [i \in 1..Len(avail) |-> Cand(avail[i], SENTINEL_KM)]
    IN IF quickTest THEN SortByD(everyone)
       ELSE IF SortByD(primary) = <<>> THEN fallback
       ELSE SortByD(primary)

\* ------------------------------------------------------------- timers
Timer(rideId, kind) == [ride |-> rideId, kind |-> kind]
Delay(kind) == IF kind = "retry" THEN RETRY_MS
               ELSE IF kind = "linger" THEN LINGER_MS ELSE OFFER_TTL_MS

\* the handle r.timer after the pending timer at index i has left the queue
ShiftHandle(h, i, gone) == IF h = i THEN gone ELSE IF h > i THEN h - 1 ELSE h
ShiftRides(rs, i, gone) ==
    [x \in RideIds |-> IF rs[x] = NoRide THEN NoRide
                       ELSE [rs[x] EXCEPT !.timer = ShiftHandle(@, i, gone)]]

\* a state of the registries and queues threaded through one handler
St(rs, tm, o) == [rides |-> rs, timers |-> tm, out |-> o]

\* clearTimer(r): if (r && r.timer) { clearTimeout(r.timer); r.timer = null; }
clearTimer(st, rideId) ==
    With(st, LAMBDA s :
       LET h == s.rides[rideId].timer
       IN IF h = TimerNull THEN s
          ELSE IF h = TimerStale
               THEN St([s.rides EXCEPT ![rideId].timer = TimerNull], s.timers, s.out)
          ELSE St([ShiftRides(s.rides, h, TimerNull) EXCEPT ![rideId].timer = TimerNull],
                  RemoveAt(s.timers, h), s.out))

\* setTimer without the call of setTimeout
setTimerForgets(st, rideId, kind) == st

\* r.timer = setTimeout(cb, ms)
setTimer(st, rideId, kind) ==
    With(st, LAMBDA s :
       St([s.rides EXCEPT ![rideId].timer = Len(s.timers) + 1],
          Append(s.timers, Timer(rideId, kind)), s.out))

\* ------------------------------------------------------ dispatchRound
\* uid as an id that is the same at every call
uidNotFresh(offered) == 1

\* uid(): an id no other offer of the ride carries
uid(offered) == Len(offered) + 1

\* Offer without r.offeredSockets.add
OfferForgetsSocket(r, sid) ==
    [r EXCEPT !.offered = Append(@, [socketId |-> sid, status |-> "pending"]),
              !.sentTo = Append(@, sid)]

\* r.offered.set(offerId, { socketId, status: 'pending' }); r.offeredSockets.add(socketId)
Offer(r, sid) ==
    [r EXCEPT !.offered = Append(@, [socketId |-> sid, status |-> "pending"]),
              !.offeredSockets = @ \cup {sid},
              !.sentTo = Append(@, sid)]

\* for (const c of candidates) { offerId = uid(); ...; emit corrida_disponivel }
RECURSIVE OfferAll(_, _, _)
OfferAll(st, rideId, candidates) ==
    IF candidates = <<>> THEN st
    ELSE With(st, LAMBDA s :
            LET c == Head(candidates)
                r == s.rides[rideId]
                offerId == uid(r.offered)
                r2 == Offer(r, c.socketId)
            IN OfferAll(St([s.rides EXCEPT ![rideId] = r2], s.timers,
                           Append(s.out, Msg(c.socketId, "corrida_disponivel", rideId, offerId, ""))),
                        rideId, Tail(candidates)))

\* Candidates without the filter on r.offeredSockets
CandidatesUnfiltered(r) == Take(listCandidateDrivers(r.pickup), BATCH_SIZE)

Candidates(r) ==
    LET all == listCandidateDrivers(r.pickup)
        already == r.offeredSockets
        NotYet(c) == c.socketId \notin already
        pool == SelectSeq(all, NotYet)
        candidates == Take(pool, BATCH_SIZE)
        Unknown(sid) == sid \notin already
        known == SelectSeq(driverOrder, Unknown)
        extra == [i \in 1..Len(known) |-> Cand(known[i], 0)]
    IN IF quickTest /\ candidates = <<>> THEN Take(extra, BATCH_SIZE) ELSE candidates

\* if (!r || r.status !== 'searching') return;
NotSearchingRound(r) == r = NoRide \/ r.status # "searching"

\* if (r.round >= MAX_ROUNDS - 1)
Exhausted(r) == r.round >= MAX_ROUNDS - 1

\* the branch of dispatchRound for an empty shortlist
NoCandidates(s, rideId) ==
    LET r == s.rides[rideId]
    IN IF Exhausted(r)
       THEN clearTimer(St([s.rides EXCEPT ![rideId].status = "failed",
                                          ![rideId].semSent = @ + 1],
                          s.timers,
                          Append(s.out, Msg(r.passengerSid, "sem_motoristas", rideId, 0, ""))),
                       rideId)
       ELSE setTimer(St([s.rides EXCEPT ![rideId].round = @ + 1], s.timers, s.out),
                     rideId, "retry")

\* the branch of dispatchRound for a non-empty shortlist
SendBatch(s, rideId, candidates) ==
    With(OfferAll(s, rideId, candidates), LAMBDA o :
       setTimer(clearTimer(St([o.rides EXCEPT ![rideId].batches = @ + 1], o.timers, o.out),
                           rideId),
                rideId, "ttl"))

dispatchRound(st, rideId) ==
    With(st, LAMBDA s :
       IF NotSearchingRound(s.rides[rideId]) THEN s
       ELSE With(Candidates(s.rides[rideId]), LAMBDA candidates :
               With(St([s.rides EXCEPT ![rideId].steps = @ + 1], s.timers, s.out), LAMBDA counted :
                  IF candidates = <<>> THEN NoCandidates(counted, rideId)
                  ELSE SendBatch(counted, rideId, candidates))))

\* ------------------------------------------------------------ handlers
Init ==
    /\ quickTest \in BOOLEAN
    /\ driverOrder = <<>>
    /\ driversBySocket = [c \in Drivers |-> NoDriver]
    /\ rides = [x \in RideIds |-> NoRide]
    /\ rooms = [x \in RideIds |-> {}]
    /\ timers = <<>>
    /\ epoch = [x \in RideIds |-> 0]
    /\ closed = {}
    /\ out = <<>>

\* time passes between two events: every stored location gets one tick older
Older(info) ==
    IF info.lat # NoLoc /\ info.age <= DRIVER_STALE_MS THEN [info EXCEPT !.age = @ + 1] ELSE info
Tick ==
    /\ \E c \in Drivers : Older(driversBySocket[c]) # driversBySocket[c]
    /\ driversBySocket' = [c \in Drivers |-> Older(driversBySocket[c])]
    /\ out' = <<>>
    /\ UNCHANGED <<quickTest, driverOrder, rides, rooms, timers, epoch, closed>>

\* socket.on('identificar')
Identificar(c, tipo) ==
    /\ c \notin closed
    /\ IF tipo = "motorista"
       THEN /\ driversBySocket' = [driversBySocket EXCEPT ![c] =
                   [present |-> TRUE, available |-> FALSE, lat |-> NoLoc, age |-> 0]]
            /\ driverOrder' = IF c \in Range(driverOrder) THEN driverOrder
                              ELSE Append(driverOrder, c)
       ELSE UNCHANGED <<driversBySocket, driverOrder>>
    /\ out' = <<>>
    /\ UNCHANGED <<quickTest, rides, rooms, timers, epoch, closed>>

\* socket.on('driver_status')
DriverStatus(c, available) ==
    /\ c \notin closed
    /\ c \in Range(driverOrder)
    /\ driversBySocket' = [driversBySocket EXCEPT ![c].available = available]
    /\ out' = <<>>
    /\ UNCHANGED <<quickTest, driverOrder, rides, rooms, timers, epoch, closed>>

\* socket.on('driver_localizacao'); rideId = "" when the payload carries none
DriverLocalizacao(c, lat, rideId) ==
    /\ c \notin closed
    /\ IF lat = NaN
       THEN /\ UNCHANGED driversBySocket
            /\ out' = <<>>
       ELSE /\ driversBySocket' =
                 IF c \in Range(driverOrder)
                 THEN [driversBySocket EXCEPT ![c].lat = lat, ![c].age = 0]
                 ELSE driversBySocket
            /\ out' = IF rideId # "" THEN EmitRoom(rooms[rideId], "driver_localizacao", rideId)
                      ELSE <<>>
    /\ UNCHANGED <<quickTest, driverOrder, rides, rooms, timers, epoch, closed>>

NewRide(c, pickup) ==
    [status |-> "searching", passengerSid |-> c, pickup |-> pickup,
     offered |-> <<>>, offeredSockets |-> {}, winnerSid |-> NoConn,
     round |-> 0, timer |-> TimerNull,
     wonTo |-> <<>>, sentTo |-> <<>>, batches |-> 0, steps |-> 0, semSent |-> 0]

\* socket.on('nova_corrida')
NovaCorrida(c, rideId, pickup) ==
    /\ c \notin closed
    /\ rideId # ""
    /\ epoch[rideId] < MaxEpoch
    /\ epoch' = [epoch EXCEPT ![rideId] = @ + 1]
    /\ rooms' = [rooms EXCEPT ![rideId] = @ \cup {c}]
    /\ \E st \in {dispatchRound(St([rides EXCEPT ![rideId] = NewRide(c, pickup)], timers, <<>>),
                                  rideId)} :
          /\ rides' = st.rides
          /\ timers' = st.timers
          /\ out' = st.out
    /\ UNCHANGED <<quickTest, driverOrder, driversBySocket, closed>>

\* LoseOthers without the loop: the other pending offers are left as they are
LoseOthersKeepsPending(offered, offerId) == offered

\* LoseOthers over the offers minted after the winning one only
LoseOthersAfter(offered, offerId) ==
    [i \in 1..Len(offered) |->
        IF i > offerId /\ offered[i].status = "pending"
        THEN [offered[i] EXCEPT !.status = "lost"] ELSE offered[i]]

\* the loop over r.offered.entries() after an award
LoseOthers(offered, offerId) ==
    [i \in 1..Len(offered) |->
        IF i # offerId /\ offered[i].status = "pending"
        THEN [offered[i] EXCEPT !.status = "lost"] ELSE offered[i]]
LostMsgs(offered, offerId, rideId) ==
    LET Loser(i) == i # offerId /\ offered[i].status = "pending"
        idx == SelectSeq([i \in 1..Len(offered) |-> i], Loser)
    IN [k \in 1..Len(idx) |-> Msg(offered[idx[k]].socketId, "offer_lost", rideId, 0, "already_taken")]

\* NotSearching without the test of r.status
NotSearchingOnlyAbsent(r) == r = NoRide

\* if (!r || r.status !== 'searching')
NotSearching(r) == r = NoRide \/ r.status # "searching"

\* OfferInvalid without the comparison of off.socketId with socket.id
OfferInvalidAnySocket(r, c, offerId) ==
    \/ offerId \notin DOMAIN r.offered
    \/ r.offered[offerId].status # "pending"

\* if (!off || off.socketId !== socket.id || off.status !== 'pending')
OfferInvalid(r, c, offerId) ==
    \/ offerId \notin DOMAIN r.offered
    \/ r.offered[offerId].socketId # c
    \/ r.offered[offerId].status # "pending"

\* socket.on('corrida_aceita')
CorridaAceita(c, rideId, offerId) ==
    /\ c \notin closed
    /\ rideId # ""
    /\ LET r == rides[rideId]
       IN IF NotSearching(r)
          THEN /\ out' = <<Msg(c, "offer_lost", rideId, 0, "not_searching")>>
               /\ UNCHANGED <<rides, timers, rooms>>
          ELSE IF OfferInvalid(r, c, offerId)
          THEN /\ out' = <<Msg(c, "offer_lost", rideId, 0, "offer_invalid")>>
               /\ UNCHANGED <<rides, timers, rooms>>
          ELSE LET won == [r EXCEPT !.status = "accepted",
                                    !.winnerSid = c,
                                    !.offered[offerId].status = "won",
                                    !.wonTo = Append(@, c)]
                   cleared == clearTimer(St([rides EXCEPT ![rideId] = won], timers, <<>>), rideId)
                   lost == [cleared.rides EXCEPT ![rideId].offered = LoseOthers(@, offerId)]
               IN /\ rides' = lost
                  /\ timers' = cleared.timers
                  /\ rooms' = [rooms EXCEPT ![rideId] = @ \cup {c}]
                  /\ out' = LostMsgs(r.offered, offerId, rideId)
                            \o EmitRoom(rooms[rideId] \cup {c}, "corrida_aceita", rideId)
                            \o <<Msg(c, "offer_won", rideId, 0, "")>>
    /\ UNCHANGED <<quickTest, driverOrder, driversBySocket, epoch, closed>>

\* socket.on('enviar_mensagem')
EnviarMensagem(c, rideId) ==
    /\ c \notin closed
    /\ rideId # ""
    /\ out' = EmitRoom(rooms[rideId], "nova_mensagem", rideId)
    /\ UNCHANGED <<quickTest, driverOrder, driversBySocket, rides, rooms, timers, epoch, closed>>

Terminal(status) == status \in {"completed", "canceled"}

\* socket.on('corrida_status')
CorridaStatus(c, rideId, status) ==
    /\ c \notin closed
    /\ rideId # ""
    /\ out' = EmitRoom(rooms[rideId], "corrida_status_atualizada", rideId)
    /\ IF Terminal(status)
       THEN /\ Cardinality({i \in 1..Len(timers) : timers[i].kind = "linger"}) < MaxLinger
            /\ timers' = Append(timers, Timer(rideId, "linger"))
            /\ rides' = [rides EXCEPT ![rideId] = NoRide]
       ELSE UNCHANGED <<rides, timers>>
    /\ UNCHANGED <<quickTest, driverOrder, driversBySocket, rooms, epoch, closed>>

\* Offline as a removal of the presence record
OfflineRemoves(rec) == NoDriver

\* rec.available = false
Offline(rec) == [rec EXCEPT !.available = FALSE]

\* socket.on('disconnect'); Socket.IO takes a disconnected socket out of every room
Disconnect(c) ==
    /\ c \notin closed
    /\ closed' = closed \cup {c}
    /\ driversBySocket' = IF c \in Range(driverOrder)
                          THEN [driversBySocket EXCEPT ![c] = Offline(@)]
                          ELSE driversBySocket
    /\ rooms' = [x \in RideIds |-> rooms[x] \ {c}]
    /\ out' = <<>>
    /\ UNCHANGED <<quickTest, driverOrder, rides, timers, epoch>>

\* a pending timer may fire once no timer armed before it with a delay at most its own is pending
MayFire(i) == \A j \in 1..(i - 1) : Delay(timers[j].kind) > Delay(timers[i].kind)

\* the callback of the timer at index i runs
TimerFire(i) ==
    /\ i \in 1..Len(timers)
    /\ MayFire(i)
    /\ LET t == timers[i]
           fired == St(ShiftRides(rides, i, TimerStale), RemoveAt(timers, i), <<>>)
           r == fired.rides[t.ride]
       IN IF t.kind = "linger"
          THEN /\ rooms' = [rooms EXCEPT ![t.ride] = {}]
               /\ rides' = fired.rides
               /\ timers' = fired.timers
               /\ out' = <<>>
          ELSE \E st \in {IF t.kind = "retry" THEN dispatchRound(fired, t.ride)
                           ELSE IF r = NoRide \/ r.status # "searching" THEN fired
                           ELSE dispatchRound(St([fired.rides EXCEPT ![t.ride].round = @ + 1],
                                                 fired.timers, fired.out), t.ride)} :
                  /\ rides' = st.rides
                  /\ timers' = st.timers
                  /\ out' = st.out
                  /\ UNCHANGED rooms
    /\ UNCHANGED <<quickTest, driverOrder, driversBySocket, epoch, closed>>

\* Socket ids are opaque: drivers are named in the order in which they first identify.
DriverSeq == <<"d1", "d2", "d3">>
NextToIdentify(S) ==
    {DriverSeq[i] : i \in {k \in 1..Len(DriverSeq) :
                              /\ DriverSeq[k] \in S
                              /\ \A j \in 1..(k - 1) : DriverSeq[j] \in Range(driverOrder)}}

\* Passenger sockets are interchangeable too: while none of them is named by a ride, a
\* room or a message, the first of them posts.
Known(c) ==
    \/ \E x \in RideIds : c \in rooms[x] \/ rides[x].passengerSid = c
    \/ \E i \in DOMAIN out : out[i].to = c
NextToPost == {c \in Passengers : c = "p1" \/ \E p \in Passengers : Known(p)}

\* the auction: two drivers, every ride handler, candidates decided by availability;
\* enviar_mensagem and corrida_status do not read the socket they arrive on
AuctionDrivers == {"d1", "d2"}
Next ==
    \/ \E c \in NextToIdentify(AuctionDrivers) : Identificar(c, "motorista")
    \/ \E tipo \in {"passageiro", "outro"} : Identificar("p1", tipo)
    \/ \E c \in AuctionDrivers, available \in BOOLEAN : DriverStatus(c, available)
    \/ \E c \in NextToPost, rideId \in RideIds : NovaCorrida(c, rideId, 0)
    \/ \E c \in AuctionDrivers, rideId \in RideIds, offerId \in OfferIdInputs(AuctionDrivers) :
          CorridaAceita(c, rideId, offerId)
    \/ \E rideId \in RideIds : EnviarMensagem("p1", rideId)
    \/ \E rideId \in RideIds, status \in {"ongoing", "completed"} :
          CorridaStatus("p1", rideId, status)
    \/ \E i \in 1..Len(timers) : TimerFire(i)

\* Without locations the normal mode offers to the available drivers and the quick-test
\* mode to all of them, which is what the normal mode does when all are available.
InitNormal == Init /\ quickTest = FALSE
Spec == InitNormal /\ [][Next]_vars

\* One passenger socket and its rides: created, posted again, accepted, completed.
\* The event loop runs the callback of every pending timer once its delay has passed, so
\* the timer armed first among the pending ones does not stay pending forever.
NextLive ==
    \/ \E c \in NextToIdentify(AuctionDrivers) : Identificar(c, "motorista")
    \/ \E c \in AuctionDrivers, available \in BOOLEAN : DriverStatus(c, available)
    \/ \E rideId \in RideIds : NovaCorrida("p1", rideId, 0)
    \/ \E c \in AuctionDrivers, rideId \in RideIds, offerId \in OfferIdInputs(AuctionDrivers) :
          CorridaAceita(c, rideId, offerId)
    \/ \E rideId \in RideIds : CorridaStatus("p1", rideId, "completed")
    \/ \E i \in 1..Len(timers) : TimerFire(i)
LiveSpec == InitNormal /\ [][NextLive]_vars /\ WF_vars(TimerFire(1))
\* the same events without the assumption on the event loop
SpecOnePassenger == InitNormal /\ [][NextLive]_vars

\* sockets come and go: the events of one passenger and two drivers, any of whom may
\* disconnect; a socket that has disconnected sends nothing more
NextDisconnect ==
    \/ \E c \in NextToIdentify(AuctionDrivers) : Identificar(c, "motorista")
    \/ \E c \in AuctionDrivers, available \in BOOLEAN : DriverStatus(c, available)
    \/ \E rideId \in RideIds : NovaCorrida("p1", rideId, 0)
    \/ \E c \in AuctionDrivers, rideId \in RideIds, offerId \in OfferIdInputs(AuctionDrivers) :
          CorridaAceita(c, rideId, offerId)
    \/ \E rideId \in RideIds : CorridaStatus("p1", rideId, "completed")
    \/ \E c \in AuctionDrivers \cup {"p1"} : Disconnect(c)
    \/ \E i \in 1..Len(timers) : TimerFire(i)
SpecDisconnect == InitNormal /\ [][NextDisconnect]_vars

\* rounds: three drivers that come and go by availability, one ride per rideId
NextRounds ==
    \/ \E c \in NextToIdentify(Drivers) : Identificar(c, "motorista")
    \/ \E c \in Drivers, available \in BOOLEAN : DriverStatus(c, available)
    \/ \E rideId \in RideIds : rides[rideId] = NoRide /\ NovaCorrida("p1", rideId, 0)
    \/ \E c \in Drivers, rideId \in RideIds, offerId \in OfferIdInputs(Drivers) :
          CorridaAceita(c, rideId, offerId)
    \/ \E i \in 1..Len(timers) : TimerFire(i)

SpecRounds == Init /\ [][NextRounds]_vars

\* candidate selection: three drivers report availability and locations while the clock
\* advances; once the ride is created its rounds run over the registry as it ages
NoRideYet == \A x \in RideIds : rides[x] = NoRide
NextSelect ==
    \/ Tick
    \/ NoRideYet /\ \E c \in NextToIdentify(Drivers) : Identificar(c, "motorista")
    \/ NoRideYet /\ \E c \in Drivers, available \in BOOLEAN : DriverStatus(c, available)
    \/ NoRideYet /\ \E c \in Drivers, lat \in Lats \cup {NaN} : DriverLocalizacao(c, lat, "")
    \/ NoRideYet /\ \E rideId \in RideIds, pickup \in Lats : NovaCorrida("p1", rideId, pickup)
    \/ \E i \in 1..Len(timers) : TimerFire(i)

SpecSelect == InitNormal /\ [][NextSelect]_vars

\* ---------------------------------------------------------------- claims
AuctionTimers(x) ==
    Cardinality({i \in 1..Len(timers) : timers[i].ride = x /\ timers[i].kind \in {"retry", "ttl"}})
OffersIn(r, status) == {i \in DOMAIN r.offered : r.offered[i].status = status}
Sent(o, ev) == SelectSeq(o, LAMBDA m : m.ev = ev)

\* C1: a ride that is ACCEPTED has exactly one WON offer, the winner's, and every other
\* offer is LOST; at most one offer_won is emitted for a ride, to its winner, and only
\* when the ride is awarded.
C1_UniqueWinner ==
    /\ \A x \in RideIds :
          LET r == rides[x]
          IN /\ Len(r.wonTo) <= 1
             /\ \A i \in DOMAIN r.wonTo : r.wonTo[i] = r.winnerSid
             /\ (r.wonTo # <<>>) <=> (r.status = "accepted")
             /\ r.status = "accepted" =>
                   /\ Cardinality(OffersIn(r, "won")) = 1
                   /\ \A i \in OffersIn(r, "won") : r.offered[i].socketId = r.winnerSid
                   /\ \A i \in DOMAIN r.offered : r.offered[i].status \in {"won", "lost"}
             /\ r.status # "accepted" => OffersIn(r, "won") = {}
    /\ Len(Sent(out, "offer_won")) <= 1
    /\ \A i \in DOMAIN out :
          out[i].ev = "offer_won" =>
             /\ rides[out[i].ride].status = "accepted"
             /\ out[i].to = rides[out[i].ride].winnerSid

\* C1 witness: a ride was just awarded to one of two solicited drivers
C1_Witness ==
    \E x \in RideIds :
       /\ rides[x].status = "accepted"
       /\ OffersIn(rides[x], "lost") # {}
       /\ Sent(out, "offer_won") # <<>>

\* C2: within a ride no connection is sent corrida_disponivel twice, and the ride's set
\* of solicited connections only grows.
NoDuplicateOffer ==
    \A x \in RideIds :
       \A i, j \in DOMAIN rides[x].sentTo : i # j => rides[x].sentTo[i] # rides[x].sentTo[j]
SameRide(x) == rides[x] # NoRide /\ rides'[x] # NoRide /\ epoch'[x] = epoch[x]
SolicitedGrows ==
    \A x \in RideIds : SameRide(x) => rides[x].offeredSockets \subseteq rides'[x].offeredSockets
C3_BoundedRounds ==
    \A x \in RideIds : rides[x].batches <= MAX_ROUNDS

\* C4: a rideId has at most one pending auction or retry timer, and exactly one while its
\* ride is SEARCHING.
C4_SingleTimer ==
    \A x \in RideIds :
       /\ AuctionTimers(x) <= 1
       /\ rides[x].status = "searching" => AuctionTimers(x) = 1

\* C5: once the ride record of a rideId is deleted, no auction or retry timer of that
\* rideId is pending.
C5_NoTimerAfterDelete ==
    \A x \in RideIds : rides[x] = NoRide => AuctionTimers(x) = 0

\* A step in which dispatchRound ran on the SEARCHING ride of x, the connections the ride
\* had solicited before it, and the drivers it was sent to, in the order of emission.
DispatchStep(x) ==
    /\ rides'[x] # NoRide
    /\ \/ epoch'[x] # epoch[x]
       \/ rides[x] # NoRide /\ rides'[x].steps = rides[x].steps + 1
AlreadyBefore(x) == IF epoch'[x] # epoch[x] THEN {} ELSE rides[x].offeredSockets
BatchOf(o, x) ==
    LET ms == SelectSeq(o, LAMBDA m : m.ev = "corrida_disponivel" /\ m.ride = x)
    IN [i \in 1..Len(ms) |-> ms[i].to]
FreshNow(c) ==
    /\ driversBySocket[c].lat # NoLoc
    /\ driversBySocket[c].age <= DRIVER_STALE_MS
EligibleNow(c) ==
    c \in Range(driverOrder) /\ driversBySocket[c].available /\ FreshNow(c)
DegreesFrom(c, pickup) == Abs(driversBySocket[c].lat - pickup)

\* C6: outside quick-test mode, a dispatch step that finds eligible drivers not yet
\* solicited offers the ride to exactly the min(BATCH_SIZE, n) nearest of those n drivers,
\* in ascending order of distance to the pickup.
NearestBatch(x) ==
    LET E == {c \in Drivers : EligibleNow(c) /\ c \notin AlreadyBefore(x)}
        B == BatchOf(out', x)
        pickup == rides'[x].pickup
    IN (~quickTest /\ DispatchStep(x) /\ E # {}) =>
          /\ Range(B) \subseteq E
          /\ Len(B) = Min(BATCH_SIZE, Cardinality(E))
          /\ Cardinality(Range(B)) = Len(B)
          /\ \A b \in Range(B), e \in E \ Range(B) :
                DegreesFrom(b, pickup) <= DegreesFrom(e, pickup)
          /\ \A i, j \in DOMAIN B : i < j => DegreesFrom(B[i], pickup) <= DegreesFrom(B[j], pickup)
C6_CandidateOrdering == [][\A x \in RideIds : NearestBatch(x)]_vars

\* C6 witness: a batch of BATCH_SIZE was just sent, nearest driver first although it
\* identified after the second one, and an eligible driver no nearer was left out
C6_Witness ==
    \E x \in RideIds :
       LET B == BatchOf(out, x)
       IN /\ ~quickTest
          /\ Len(B) = BATCH_SIZE
          /\ DegreesFrom(B[1], rides[x].pickup) < DegreesFrom(B[2], rides[x].pickup)
          /\ \E i, j \in DOMAIN driverOrder : i < j /\ driverOrder[i] = B[2] /\ driverOrder[j] = B[1]
          /\ \E c \in Drivers : EligibleNow(c) /\ c \notin rides[x].offeredSockets

\* C7: outside quick-test mode, in a dispatch step where some available driver has a fresh
\* location, every driver that is sent corrida_disponivel is available and has a fresh
\* location.
FreshGate(x) ==
    (/\ ~quickTest
     /\ DispatchStep(x)
     /\ \E c \in Drivers : EligibleNow(c))
    => \A b \in Range(BatchOf(out', x)) : EligibleNow(b)
C7_FreshnessGate == [][\A x \in RideIds : FreshGate(x)]_vars

\* C7 witness: a batch was just sent to a fresh driver while an available driver with a
\* stale location and an available driver without a location were passed over
C7_Witness ==
    \E x \in RideIds :
       /\ ~quickTest
       /\ BatchOf(out, x) # <<>>
       /\ \A b \in Range(BatchOf(out, x)) : EligibleNow(b)
       /\ \E c \in Range(driverOrder) \ rides[x].offeredSockets :
             /\ driversBySocket[c].available
             /\ driversBySocket[c].lat # NoLoc
             /\ driversBySocket[c].age > DRIVER_STALE_MS
       /\ \E c \in Range(driverOrder) \ rides[x].offeredSockets :
             driversBySocket[c].available /\ driversBySocket[c].lat = NoLoc

\* C8: the members of ride:<rideId> are among the passenger and the winner of the
\* current ride record of rideId.
C8_RoomScoping ==
    \A x \in RideIds : rooms[x] \subseteq {rides[x].passengerSid, rides[x].winnerSid}

\* C9: under fair timer fires every SEARCHING ride eventually leaves SEARCHING; a FAILED
\* ride had sem_motoristas sent once; and when no driver ever identified, the ride fails
\* after exactly MAX_ROUNDS dispatch steps.
LeavesSearching ==
    \A x \in RideIds : (rides[x].status = "searching") ~> (rides[x].status # "searching")
FailedIsTold ==
    \A x \in RideIds :
       /\ rides[x].status = "failed" => rides[x].semSent = 1
       /\ (rides[x].status = "failed" /\ driverOrder = <<>>) => rides[x].steps = MAX_ROUNDS
       /\ \A i \in DOMAIN out :
             out[i].ev = "sem_motoristas" =>
                /\ rides[out[i].ride].status = "failed"
                /\ out[i].to = rides[out[i].ride].passengerSid
NoDriversFails ==
    \A x \in RideIds :
       (rides[x].status = "searching" /\ driverOrder = <<>>)
          ~> (rides[x].status \in {"failed", "none"} \/ driverOrder # <<>>)
C9_AuctionTermination == LeavesSearching /\ NoDriversFails /\ []FailedIsTold

\* C9 witness: with no driver identified, the passenger was just sent sem_motoristas at
\* the MAX_ROUNDS-th dispatch step
C9_Witness ==
    \E x \in RideIds :
       /\ driverOrder = <<>>
       /\ rides[x].status = "failed"
       /\ rides[x].steps = MAX_ROUNDS
       /\ out = <<Msg(rides[x].passengerSid, "sem_motoristas", x, 0, "")>>

\* C10: a corrida_aceita for a ride that is absent or not SEARCHING is answered to the
\* sender alone with offer_lost not_searching, one quoting an unknown, foreign or
\* non-pending offer of a SEARCHING ride with offer_lost offer_invalid, and neither
\* changes the ride, the timers or the room.
RejectedWith(c, x, reason) ==
    /\ out' = <<Msg(c, "offer_lost", x, 0, reason)>>
    /\ rides' = rides
    /\ timers' = timers
    /\ rooms' = rooms
RefusedOffer(c, x, o) ==
    /\ rides[x].status = "searching"
    /\ \/ o \notin DOMAIN rides[x].offered
       \/ rides[x].offered[o].socketId # c
       \/ rides[x].offered[o].status # "pending"
RejectionStep(c, x, o) ==
    /\ (rides[x].status # "searching" /\ CorridaAceita(c, x, o))
          => RejectedWith(c, x, "not_searching")
    /\ (RefusedOffer(c, x, o) /\ CorridaAceita(c, x, o))
          => RejectedWith(c, x, "offer_invalid")
C10_RejectedAcceptance ==
    [][\A c \in AuctionDrivers, x \in RideIds, o \in OfferIdInputs(AuctionDrivers) :
          RejectionStep(c, x, o)]_vars

\* C10 witness: a driver quoted the offer of another driver of a SEARCHING ride and was refused
C10_Witness ==
    \E x \in RideIds, c \in Drivers :
       /\ out = <<Msg(c, "offer_lost", x, 0, "offer_invalid")>>
       /\ rides[x].status = "searching"
       /\ \E i \in DOMAIN rides[x].offered : rides[x].offered[i].socketId # c

\* The offer_lost messages of the last handler that went to a solicited driver of an
\* ACCEPTED ride other than its winner carry one of the given reasons.
LoserReasons(reasons) ==
    \A i \in DOMAIN out :
       LET r == rides[out[i].ride]
       IN (/\ out[i].ev = "offer_lost"
           /\ r.status = "accepted"
           /\ out[i].to \in r.offeredSockets
           /\ out[i].to # r.winnerSid)
          => out[i].reason \in reasons
OneAward ==
    /\ Len(Sent(out, "offer_won")) <= 1
    /\ \A x \in RideIds :
          /\ Len(rides[x].wonTo) <= 1
          /\ rides[x].status = "accepted" =>
                /\ Len(rides[x].wonTo) = 1
                /\ rides[x].winnerSid \in rides[x].offeredSockets
                /\ Cardinality(OffersIn(rides[x], "won")) = 1

\* C11 as stated: when two solicited drivers both accept, one offer_won is emitted, the
\* ride is ACCEPTED with one winner, and every offer_lost the other driver receives
\* carries already_taken or offer_invalid.
C11_ConcurrentAcceptance_Original ==
    OneAward /\ LoserReasons({"already_taken", "offer_invalid"})

\* C11 amended: when two solicited drivers both accept, one offer_won is emitted, the
\* ride is ACCEPTED with one winner, and every offer_lost the other driver receives
\* carries already_taken (sent when the winner accepted) or not_searching (the answer
\* to its own, later corrida_aceita).
C11_ConcurrentAcceptance ==
    OneAward /\ LoserReasons({"already_taken", "not_searching"})

\* C11 witness: d1 and d2 held PENDING offers of the ride, d2 accepted first and won, and
\* d1, whose offer was issued first, has just been answered on its own acceptance
C11_Witness ==
    \E x \in RideIds :
       /\ rides[x].status = "accepted"
       /\ rides[x].winnerSid = "d2"
       /\ Len(rides[x].offered) = 2
       /\ rides[x].offered[1] = [socketId |-> "d1", status |-> "lost"]
       /\ out = <<Msg("d1", "offer_lost", x, 0, "not_searching")>>

\* C12: while a ride stays SEARCHING its offers stay as they are, whatever timers fire
\* and rounds begin; the driver of any PENDING offer that accepts wins; and when a ride
\* is awarded every other offer that was PENDING, of whatever round, becomes LOST and its
\* connection is sent offer_lost already_taken.
PendingKept(x) ==
    (SameRide(x) /\ rides[x].status = "searching" /\ rides'[x].status = "searching")
    => /\ Len(rides'[x].offered) >= Len(rides[x].offered)
       /\ \A i \in DOMAIN rides[x].offered :
             /\ rides[x].offered[i].status = "pending"
             /\ rides'[x].offered[i] = rides[x].offered[i]
PendingWins(c, x, o) ==
    (/\ rides[x].status = "searching"
     /\ o \in DOMAIN rides[x].offered
     /\ rides[x].offered[o] = [socketId |-> c, status |-> "pending"]
     /\ CorridaAceita(c, x, o))
    => /\ rides'[x].status = "accepted"
       /\ rides'[x].winnerSid = c
       /\ rides'[x].offered[o].status = "won"
       /\ Sent(out', "offer_won") = <<Msg(c, "offer_won", x, 0, "")>>
OthersLost(x) ==
    (rides[x].status = "searching" /\ rides'[x].status = "accepted")
    => \A i \in DOMAIN rides[x].offered :
          rides'[x].offered[i].status # "won" =>
             /\ rides'[x].offered[i].status = "lost"
             /\ Msg(rides[x].offered[i].socketId, "offer_lost", x, 0, "already_taken")
                   \in Range(out')
C12_LateAcceptance ==
    [][/\ \A x \in RideIds : PendingKept(x) /\ OthersLost(x)
       /\ \A c \in Drivers, x \in RideIds, o \in OfferIdInputs(Drivers) : PendingWins(c, x, o)]_vars

\* C12 witness: d1 was offered the ride in the first round and d2 in a later one; d1 has
\* just won on its offer of the first round, and d2's offer was made LOST and d2 told
\* already_taken
C12_Witness ==
    \E x \in RideIds :
       /\ rides[x].status = "accepted"
       /\ rides[x].batches = 2
       /\ rides[x].round >= 1
       /\ rides[x].offered = <<[socketId |-> "d1", status |-> "won"],
                               [socketId |-> "d2", status |-> "lost"]>>
       /\ Msg("d2", "offer_lost", x, 0, "already_taken") \in Range(out)
       /\ Msg("d1", "offer_won", x, 0, "") \in Range(out)

\* C13: a terminal corrida_status leaves the ride record and the room as they are and
\* arms the linger timer; the record is deleted and the room emptied only when that
\* timer fires.
LingerArmed(x) == Len(timers') > Len(timers) /\ timers'[Len(timers')] = Timer(x, "linger")
LingerFired(x) == Len(timers') < Len(timers) /\ rooms[x] # {} /\ rooms'[x] = {}
TerminalLinger(x) ==
    /\ LingerArmed(x) => (rides'[x] = rides[x] /\ rooms'[x] = rooms[x])
    /\ (rides[x] # NoRide /\ rides'[x] = NoRide) => LingerFired(x)
C13_TerminalLinger == [][\A x \in RideIds : TerminalLinger(x)]_vars

\* C14: the disconnect of a driver socket sets available = false in its presence record
\* and changes no other record, no ride and no timer; an ACCEPTED ride whose winner has
\* disconnected keeps its status, winner, offers and round for as long as its record is
\* neither deleted nor replaced.
DisconnectFrame(c) ==
    (c \notin closed /\ closed' = closed \cup {c})
    => /\ rides' = rides
       /\ timers' = timers
       /\ driverOrder' = driverOrder
       /\ driversBySocket' =
             [d \in Drivers |-> IF d = c /\ driversBySocket[d].present
                                THEN [driversBySocket[d] EXCEPT !.available = FALSE]
                                ELSE driversBySocket[d]]
WinnerGoneStays(x) ==
    (SameRide(x) /\ rides[x].status = "accepted" /\ rides[x].winnerSid \in closed)
    => /\ rides'[x].status = "accepted"
       /\ rides'[x].winnerSid = rides[x].winnerSid
       /\ rides'[x].offered = rides[x].offered
       /\ rides'[x].round = rides[x].round
C14_DisconnectFrame ==
    [][/\ \A c \in Drivers : DisconnectFrame(c)
       /\ \A x \in RideIds : WinnerGoneStays(x)]_vars

\* C14 witness: the winner of an ACCEPTED ride, who was available, has disconnected
C14_Witness ==
    \E x \in RideIds :
       /\ rides[x].status = "accepted"
       /\ rides[x].winnerSid \in closed
       /\ driversBySocket[rides[x].winnerSid] =
             [present |-> TRUE, available |-> FALSE, lat |-> NoLoc, age |-> 0]
       /\ \E d \in Drivers \ closed : driversBySocket[d].available

\* C15: outside quick-test mode, a dispatch step that finds no eligible driver outside the
\* solicited set but some available driver outside it offers the ride to min(BATCH_SIZE, n)
\* of those n available drivers.
FallbackBatch(x) ==
    LET E == {c \in Drivers : EligibleNow(c) /\ c \notin AlreadyBefore(x)}
        A == {c \in Range(driverOrder) : driversBySocket[c].available /\ c \notin AlreadyBefore(x)}
        B == BatchOf(out', x)
    IN (~quickTest /\ DispatchStep(x) /\ E = {} /\ A # {}) =>
          /\ B # <<>>
          /\ Range(B) \subseteq A
          /\ Len(B) = Min(BATCH_SIZE, Cardinality(A))
C15_FallbackSelection == [][\A x \in RideIds : FallbackBatch(x)]_vars

\* C16: sem_motoristas is emitted only by a dispatch step that offers to no driver, with
\* every candidate already solicited and round >= MAX_ROUNDS - 1; it is emitted once per
\* ride, leaves the ride FAILED with no auction or retry timer pending, and no
\* corrida_disponivel of the ride follows it.
SemSent(o, x) == \E i \in DOMAIN o : o[i].ev = "sem_motoristas" /\ o[i].ride = x
NoneLeft(x) ==
    LET registered == Range(driverOrder)
        available == {c \in registered : driversBySocket[c].available}
        eligible == {c \in available : FreshNow(c)}
    IN IF quickTest THEN registered \subseteq AlreadyBefore(x)
       ELSE IF eligible # {} THEN eligible \subseteq AlreadyBefore(x)
       ELSE available \subseteq AlreadyBefore(x)
ExhaustionStep(x) ==
    SemSent(out', x) =>
       /\ DispatchStep(x)
       /\ BatchOf(out', x) = <<>>
       /\ NoneLeft(x)
       /\ rides'[x].round >= MAX_ROUNDS - 1
       /\ rides'[x].status = "failed"
       /\ rides'[x].semSent = 1
       /\ Len(Sent(out', "sem_motoristas")) = 1
AfterExhaustion(x) ==
    (SameRide(x) /\ rides[x].status = "failed")
    => /\ rides'[x].status = "failed"
       /\ BatchOf(out', x) = <<>>
       /\ ~SemSent(out', x)
NoTimerLeft(x) == SemSent(out', x) => AuctionTimers(x)' = 0
C16_Exhaustion ==
    [][\A x \in RideIds : ExhaustionStep(x) /\ AfterExhaustion(x) /\ NoTimerLeft(x)]_vars

\* C17: the winner of an ACCEPTED ride is the target of its WON offer and was sent
\* corrida_disponivel with that offerId; every corrida_disponivel carries the id of an
\* offer of its ride whose target is the receiver; and a corrida_aceita quoting an offer
\* of another connection awards nothing.
WinnerBound ==
    \A x \in RideIds :
       rides[x].status = "accepted" =>
          \E o \in DOMAIN rides[x].offered :
             /\ OffersIn(rides[x], "won") = {o}
             /\ rides[x].offered[o].socketId = rides[x].winnerSid
             /\ rides[x].sentTo[o] = rides[x].winnerSid
MintBound ==
    \A i \in DOMAIN out' :
       out'[i].ev = "corrida_disponivel" =>
          LET r == rides'[out'[i].ride]
          IN /\ out'[i].offerId \in DOMAIN r.offered
             /\ r.offered[out'[i].offerId].socketId = out'[i].to
             /\ \A j \in DOMAIN out' :
                   (j # i /\ out'[j].ev = "corrida_disponivel") =>
                      out'[j].offerId # out'[i].offerId
NoTheft(c, x, o) ==
    (/\ o \in DOMAIN rides[x].offered
     /\ rides[x].offered[o].socketId # c
     /\ CorridaAceita(c, x, o))
    => /\ rides'[x] = rides[x]
       /\ Sent(out', "offer_won") = <<>>
C17_OfferBinding ==
    /\ []WinnerBound
    /\ [][/\ MintBound
          /\ \A c \in AuctionDrivers, x \in RideIds, o \in OfferIdInputs(AuctionDrivers) :
                NoTheft(c, x, o)]_vars

\* C17 witness: d1 and d2 were sent the offers 1 and 2 of the ride, and d2 has just won
\* it on offer 2
C17_Witness ==
    \E x \in RideIds :
       /\ rides[x].status = "accepted"
       /\ rides[x].winnerSid = "d2"
       /\ rides[x].sentTo = <<"d1", "d2">>
       /\ rides[x].offered[2] = [socketId |-> "d2", status |-> "won"]
       /\ Sent(out, "offer_won") = <<Msg("d2", "offer_won", x, 0, "")>>

\* C18: the passenger of a SEARCHING or ACCEPTED ride, while connected, is a member of
\* the room of the ride.
C18_PassengerInRoom ==
    \A x \in RideIds :
       (rides[x].status \in {"searching", "accepted"} /\ rides[x].passengerSid \notin closed)
       => rides[x].passengerSid \in rooms[x]

\* C19: an ACCEPTED or FAILED ride record does not return to SEARCHING, and an ACCEPTED
\* one keeps its winner, for as long as the rideId has a record.
StatusMonotone(x) ==
    (rides[x].status \in {"accepted", "failed"} /\ rides'[x] # NoRide)
    => /\ rides'[x].status # "searching"
       /\ rides[x].status = "accepted" => rides'[x].winnerSid = rides[x].winnerSid
C19_StatusMonotone == [][\A x \in RideIds : StatusMonotone(x)]_vars

\* C20: a SEARCHING ride has only PENDING offers, an ACCEPTED ride has no PENDING offer,
\* and the solicited set of a ride is the set of the targets of its offers, which are
\* pairwise different.
C20_OfferStates ==
    \A x \in RideIds :
       LET r == rides[x]
       IN /\ r.status = "searching" => OffersIn(r, "pending") = DOMAIN r.offered
          /\ r.status = "accepted" => OffersIn(r, "pending") = {}
          /\ r.offeredSockets = {r.offered[i].socketId : i \in DOMAIN r.offered}
          /\ Cardinality(r.offeredSockets) = Len(r.offered)

\* C20 witness: a ride that solicited d1 and d2 was awarded, and none of its two offers
\* is PENDING any more
C20_Witness ==
    \E x \in RideIds :
       /\ rides[x].status = "accepted"
       /\ Len(rides[x].offered) = 2
       /\ rides[x].offeredSockets = {"d1", "d2"}
       /\ OffersIn(rides[x], "pending") = {}

====
